---- MODULE Spec2Model ----
(***************************************************************************)
(* audio-tagger: scripts/tag_audio.py (filename parser, tagging loop) and  *)
(* scripts/discogs_lookup.py (earliest-release resolver).                  *)
(*                                                                         *)
(* Three specifications share the variables of this module:                *)
(*   ParserSpec    parse_filename applied to generated file names          *)
(*   ResolverSpec  one call of find_earliest_release, statement by         *)
(*                 statement, against a search response and a table of     *)
(*                 release-detail fetch outcomes                           *)
(*   TaggerSpec    runs of process_path / tag_file over a directory        *)
(*                                                                         *)
(* Strings are sequences of one-character strings, so that substring,      *)
(* lower(), strip() and the regular-expression match are computed.         *)
(* Python's None is the string "None" where the other values are strings,  *)
(* and an explicit record field elsewhere.                                 *)
(***************************************************************************)
EXTENDS Integers, Sequences, FiniteSets, TLC

VARIABLES
    \* ---- ParserSpec
    p_pc,        \* "init" | "parsed"
    p_artist,    \* the artist the file name was formed from
    p_title,     \* the title the file name was formed from
    p_pattern,   \* the pattern, a sequence of characters and placeholders
    p_ext,       \* the extension appended to the file name (<<>> for none)
    p_result,    \* what parse_filename returned
    \* ---- ResolverSpec
    r_pc,        \* position in find_earliest_release
    searchOk,    \* does the search request succeed
    results,     \* the search response's "results" array
    detail,      \* release id -> outcome of GET /releases/{id}
    verify,      \* verify_tracklist
    candidates,  \* the local list `candidates`
    idx,         \* index of the loop variable `candidate`
    details,     \* the local `details` of the current iteration
    ret,         \* what the call returned or raised
    events,      \* network and sleep events, in order
    examined,    \* indices of candidates the loop has visited
    \* ---- TaggerSpec
    t_pc,        \* "idle" | "loop" | "done" | "aborted"
    disk,        \* file id -> tags stored in the file
    cfg,         \* arguments of the current process_path run
    queue,       \* sorted(files) of the current run
    pos,         \* index into queue of the next file
    stats,       \* the stats dict (counters)
    last,        \* what happened to the file processed last
    runs         \* number of process_path runs started

pvars == <<p_pc, p_artist, p_title, p_pattern, p_ext, p_result>>
rvars == <<r_pc, searchOk, results, detail, verify, candidates, idx, details,
           ret, events, examined>>
tvars == <<t_pc, disk, cfg, queue, pos, stats, last, runs>>
vars == <<pvars, rvars, tvars>>

----------------------------------------------------------------------------
(* Bounds *)

MaxLen == 2        \* longest generated artist / title (ParserSpec)
MaxResults == 3    \* longest search response (ResolverSpec)
MaxRuns == 2       \* process_path runs in one behaviour (TaggerSpec)

----------------------------------------------------------------------------
(* Strings *)

None == "None"

RECURSIVE SeqsUpTo(_, _)
SeqsUpTo(S, n) ==
    IF n = 0 THEN {<<>>}
    ELSE LET shorter == SeqsUpTo(S, n - 1)
         IN  shorter \cup {Append(s, c) : s \in {t \in shorter : Len(t) = n - 1}, c \in S}

\* str.lower() on the characters the model uses
LowerChar(c) ==
    CASE c = "A" -> "a"
      [] c = "B" -> "b"
      [] c = "L" -> "l"
      [] c = "M" -> "m"
      [] c = "O" -> "o"
      [] c = "P" -> "p"
      [] c = "X" -> "x"
      [] OTHER -> c

lower(s) == [i \in 1..Len(s) |-> LowerChar(s[i])]

IsSpace(c) == c = " "

\* str.strip(): drop leading and trailing whitespace
strip(s) ==
    LET keep == {i \in 1..Len(s) : ~IsSpace(s[i])}
    IN  IF keep = {} THEN <<>>
        ELSE LET lo == CHOOSE i \in keep : \A j \in keep : i <= j
                 hi == CHOOSE i \in keep : \A j \in keep : j <= i
             IN  SubSeq(s, lo, hi)

\* does needle occur in hay at 1-based position i
OccursAt(hay, needle, i) ==
    /\ i >= 1
    /\ i + Len(needle) - 1 <= Len(hay)
    /\ SubSeq(hay, i, i + Len(needle) - 1) = needle

\* Python's `needle in hay` on strings
Contains(hay, needle) == \E i \in 1..(Len(hay) + 1) : OccursAt(hay, needle, i)

----------------------------------------------------------------------------
(* pathlib: PurePath.suffix and PurePath.stem of a bare file name *)

DotPositions(name) == {i \in 1..Len(name) : name[i] = "."}

LastDot(name) ==
    IF DotPositions(name) = {} THEN 0
    ELSE CHOOSE i \in DotPositions(name) : \A j \in DotPositions(name) : j <= i

\* suffix: from the last dot, unless that dot is first or last in the name
HasSuffix(name) == 1 < LastDot(name) /\ LastDot(name) < Len(name)

suffix(name) ==
    IF HasSuffix(name) THEN SubSeq(name, LastDot(name), Len(name)) ELSE <<>>

stem(name) ==
    IF HasSuffix(name) THEN SubSeq(name, 1, LastDot(name) - 1) ELSE name

----------------------------------------------------------------------------
(* parse_filename *)

PhArtist == "{artist}"
PhTitle == "{title}"

IsPlaceholder(tok) == tok \in {PhArtist, PhTitle}

\* the patterns of the model hold one {artist} and one {title}
PhPositions(pattern) == {i \in 1..Len(pattern) : IsPlaceholder(pattern[i])}

FirstPh(pattern) == CHOOSE i \in PhPositions(pattern) : \A j \in PhPositions(pattern) : i <= j
SecondPh(pattern) == CHOOSE i \in PhPositions(pattern) : \A j \in PhPositions(pattern) : j <= i

PrefixLit(pattern) == SubSeq(pattern, 1, FirstPh(pattern) - 1)
SeparatorLit(pattern) == SubSeq(pattern, FirstPh(pattern) + 1, SecondPh(pattern) - 1)
SuffixLit(pattern) == SubSeq(pattern, SecondPh(pattern) + 1, Len(pattern))

\* re.escape makes every pattern character literal; re.IGNORECASE compares
\* the literals without case
LitMatch(text, lit) == lower(text) = lower(lit)

\* `.` matches any character but a line break
DotPlus(text) == Len(text) >= 1 /\ \A i \in 1..Len(text) : text[i] # "\n"

\* lengths k of the first group for which ^pre(g1)sep(g2)post$ matches text
SplitsOf(text, pre, sep, post) ==
    {k \in 1..Len(text) :
        /\ Len(pre) + k + Len(sep) + 1 <= Len(text) - Len(post)
        /\ LitMatch(SubSeq(text, 1, Len(pre)), pre)
        /\ DotPlus(SubSeq(text, Len(pre) + 1, Len(pre) + k))
        /\ LitMatch(SubSeq(text, Len(pre) + k + 1, Len(pre) + k + Len(sep)), sep)
        /\ DotPlus(SubSeq(text, Len(pre) + k + Len(sep) + 1, Len(text) - Len(post)))
        /\ LitMatch(SubSeq(text, Len(text) - Len(post) + 1, Len(text)), post)}

Splits(text, pattern) ==
    SplitsOf(text, PrefixLit(pattern), SeparatorLit(pattern), SuffixLit(pattern))

\* (?P<artist>.+?) is tried shortest first, (?P<title>.+) longest first; the
\* group that comes first in the pattern decides, the other is forced by $
ChosenOf(ks, artistFirst) ==
    IF artistFirst
    THEN CHOOSE k \in ks : \A j \in ks : k <= j
    ELSE CHOOSE k \in ks : \A j \in ks : j <= k

ChosenSplit(text, pattern) ==
    ChosenOf(Splits(text, pattern), pattern[FirstPh(pattern)] = PhArtist)

NoParse == [ok |-> FALSE, artist |-> <<>>, title |-> <<>>]

\* match.group('artist'), match.group('title') when the first group
\* takes k characters
GroupsAt(text, pattern, k) ==
    IF pattern[FirstPh(pattern)] = PhArtist
    THEN [artist |-> SubSeq(text, Len(PrefixLit(pattern)) + 1, Len(PrefixLit(pattern)) + k),
          title  |-> SubSeq(text, Len(PrefixLit(pattern)) + k + Len(SeparatorLit(pattern)) + 1,
                            Len(text) - Len(SuffixLit(pattern)))]
    ELSE [title  |-> SubSeq(text, Len(PrefixLit(pattern)) + 1, Len(PrefixLit(pattern)) + k),
          artist |-> SubSeq(text, Len(PrefixLit(pattern)) + k + Len(SeparatorLit(pattern)) + 1,
                            Len(text) - Len(SuffixLit(pattern)))]

Groups(text, pattern) == GroupsAt(text, pattern, ChosenSplit(text, pattern))

\* mutant of MatchResult: the groups are returned untrimmed
MatchResult_nostrip(text, pattern, ks) ==
    IF ks = {} THEN NoParse
    ELSE [ok |-> TRUE,
          artist |-> Groups(text, pattern).artist,
          title  |-> Groups(text, pattern).title]

\* lines 62-68: the match of ^regex$ on the stem, its groups stripped
MatchResult(text, pattern, ks) ==
    IF ks = {} THEN NoParse
    ELSE [ok |-> TRUE,
          artist |-> strip(Groups(text, pattern).artist),
          title  |-> strip(Groups(text, pattern).title)]

MatchStem(text, pattern) == MatchResult(text, pattern, Splits(text, pattern))

\* lines 50-68
parse_filename(filename, pattern) == MatchStem(stem(filename), pattern)

----------------------------------------------------------------------------
(* discogs_lookup.py: payloads *)

\* A JSON "year": an int, a string, or absent.  v is the number an int holds.
YearInt(n) == [k |-> "int", v |-> n]
YearStr == [k |-> "str", v |-> 0]
YearMissing == [k |-> "missing", v |-> 0]

\* Release ids are positive; id 0 stands for a row whose "id" is absent or 0,
\* the values `if ... and release_id` takes as false.
ReleaseIds == {1, 2}
RowIds == {0} \cup ReleaseIds

GenreOf(id)   == CASE id = 1 -> <<"Rock">> [] id = 2 -> <<"Rock", "Pop">> [] OTHER -> <<>>
StyleOf(id)   == CASE id = 1 -> <<"Prog Rock", "Psychedelic", "Art Rock">> [] OTHER -> <<>>
LabelOf(id)   == CASE id = 1 -> <<"Harvest", "EMI">> [] id = 2 -> <<"Columbia">> [] OTHER -> <<>>
FormatOf(id)  == CASE id = 1 -> <<"Vinyl", "LP">> [] id = 2 -> <<>> [] OTHER -> <<"CD">>
CountryOf(id) == CASE id = 1 -> "UK" [] id = 2 -> "US" [] OTHER -> None

\* one row of the search response
SearchRow(id, year) ==
    [id |-> id, year |-> year, genre |-> GenreOf(id), style |-> StyleOf(id),
     label |-> LabelOf(id), format |-> FormatOf(id), country |-> CountryOf(id)]

ValidYears == {1973, 1975}

\* Rows with a usable year carry every id; rows the filter drops (year
\* absent, a string, or 1900) do not depend on the id and carry id 1.
Rows ==
    {SearchRow(id, YearInt(y)) : id \in RowIds, y \in ValidYears}
    \cup {SearchRow(1, y) : y \in {YearMissing, YearStr, YearInt(1900)}}

\* the queried artist and title
QArtist == <<"X">>
QTitle == <<"L", "o">>

\* GET /releases/{id}: the request fails, or answers with a payload
FetchFailed == [ok |-> FALSE, genres |-> <<>>, styles |-> <<>>, labels |-> <<>>,
                tracklist |-> <<>>]

\* a payload whose tracklist holds the title: as part of a longer track
\* title in other case (id 1), or as a track title that is part of it (id 2)
DetailMatch(id) ==
    [ok |-> TRUE,
     genres |-> IF id = 1 THEN <<"Rock">> ELSE <<"Electronic">>,
     styles |-> IF id = 1 THEN <<"Prog Rock">> ELSE <<>>,
     labels |-> IF id = 1 THEN <<[name |-> "Harvest Records"]>> ELSE <<>>,
     tracklist |-> IF id = 1 THEN << <<"a">>, <<"l", "O", "w">> >> ELSE << <<"O">> >>]

\* a payload whose tracklist does not hold the title: no track (id 1), or
\* other tracks (id 2)
DetailNoMatch(id) ==
    [ok |-> TRUE,
     genres |-> <<"Jazz">>,
     styles |-> <<>>,
     labels |-> <<[name |-> "Blue Note"]>>,
     tracklist |-> IF id = 1 THEN << >> ELSE << <<"a", "b">>, <<"o", "l">> >>]

DetailOutcomes(id) == {FetchFailed, DetailMatch(id), DetailNoMatch(id)}

DetailTables == {d \in [ReleaseIds -> UNION {DetailOutcomes(id) : id \in ReleaseIds}] :
                    \A id \in ReleaseIds : d[id] \in DetailOutcomes(id)}

----------------------------------------------------------------------------
(* discogs_lookup.py: pure parts of find_earliest_release *)

\* case-insensitive containment, either way, against every track title
track_on_release(release_details, title) ==
    \E i \in 1..Len(release_details.tracklist) :
        LET track_title == lower(release_details.tracklist[i])
            title_lower == lower(title)
        IN  Contains(track_title, title_lower) \/ Contains(title_lower, track_title)

\* mutant of YearValid: 1900 passes
YearValid_inclusive(year) == year.k = "int" /\ year.v # 0 /\ year.v >= 1900

\* `year and isinstance(year, int) and year > 1900`
YearValid(year) == year.k = "int" /\ year.v # 0 /\ year.v > 1900

\* the loop that appends the rows with a usable year
FilterRows(rs) == SelectSeq(rs, LAMBDA r : YearValid(r.year))

\* list.sort(key=year): stable, ascending.  Insert each element after the
\* elements already placed whose key is not greater.
\* mutant of SortByYear: an element goes before the placed elements of equal key
RECURSIVE SortByYear_unstable(_)
SortByYear_unstable(cs) ==
    IF cs = <<>> THEN <<>>
    ELSE LET rest   == SortByYear_unstable(SubSeq(cs, 1, Len(cs) - 1))
             x      == cs[Len(cs)]
             before == SelectSeq(rest, LAMBDA c : c.year.v < x.year.v)
             after  == SelectSeq(rest, LAMBDA c : c.year.v >= x.year.v)
         IN  before \o <<x>> \o after

RECURSIVE SortByYear(_)
SortByYear(cs) ==
    IF cs = <<>> THEN <<>>
    ELSE LET rest   == SortByYear(SubSeq(cs, 1, Len(cs) - 1))
             x      == cs[Len(cs)]
             before == SelectSeq(rest, LAMBDA c : c.year.v <= x.year.v)
             after  == SelectSeq(rest, LAMBDA c : c.year.v > x.year.v)
         IN  before \o <<x>> \o after

First(list) == IF list = <<>> THEN None ELSE list[1]

ReleaseUrl(id) == <<"https://www.discogs.com/release/", id>>

NoResult ==
    [found |-> FALSE, artist |-> <<>>, title |-> <<>>, year |-> 0, genres |-> <<>>,
     styles |-> <<>>, label |-> None, release_id |-> 0, release_url |-> ReleaseUrl(0),
     format |-> None, country |-> None]

\* DiscogsResult built from the search row alone
FromSearch(c, artist, title) ==
    [found |-> TRUE, artist |-> artist, title |-> title, year |-> c.year.v,
     genres |-> c.genre, styles |-> c.style, label |-> First(c.label),
     release_id |-> c.id, release_url |-> ReleaseUrl(c.id),
     format |-> First(c.format), country |-> c.country]

\* DiscogsResult of a verified match: genres, styles and label of the
\* release payload; year, format and country of the search row
FromDetails(c, d, artist, title) ==
    [found |-> TRUE, artist |-> artist, title |-> title, year |-> c.year.v,
     genres |-> d.genres, styles |-> d.styles,
     label |-> IF d.labels = <<>> THEN None ELSE d.labels[1].name,
     release_id |-> c.id, release_url |-> ReleaseUrl(c.id),
     format |-> First(c.format), country |-> c.country]

Returned(value, via) == [kind |-> "returned", value |-> value, via |-> via]
Raised == [kind |-> "raised", value |-> NoResult, via |-> "search"]
Pending == [kind |-> "pending", value |-> NoResult, via |-> "none"]

\* mutant of FallbackResult: the last candidate instead of the first
FallbackResult_last(cands, artist, title) ==
    IF cands # <<>> THEN Returned(FromSearch(cands[Len(cands)], artist, title), "fallback")
    ELSE Returned(NoResult, "notfound")

\* lines 167-183: after the loop
FallbackResult(cands, artist, title) ==
    IF cands # <<>> THEN Returned(FromSearch(cands[1], artist, title), "fallback")
    ELSE Returned(NoResult, "notfound")

\* the loop from index i on, as one value
RECURSIVE LoopFrom(_, _, _, _, _, _)
LoopFrom(cands, i, det, ver, artist, title) ==
    IF i > Len(cands) THEN FallbackResult(cands, artist, title)
    ELSE LET c == cands[i]
         IN  IF ver /\ c.id # 0
             THEN IF det[c.id].ok /\ track_on_release(det[c.id], title)
                  THEN Returned(FromDetails(c, det[c.id], artist, title), "verified")
                  ELSE LoopFrom(cands, i + 1, det, ver, artist, title)
             ELSE Returned(FromSearch(c, artist, title), "direct")

\* the whole call as one value
find_earliest_release(ok, rs, det, ver, artist, title) ==
    IF ~ok THEN Raised
    ELSE IF rs = <<>> THEN Returned(NoResult, "empty")
    ELSE LoopFrom(SortByYear(FilterRows(rs)), 1, det, ver, artist, title)

----------------------------------------------------------------------------
(* Values the variables of a specification hold while another one runs *)

NoDetails == FetchFailed

ParserIdle ==
    /\ p_pc = "off" /\ p_artist = <<>> /\ p_title = <<>> /\ p_pattern = <<>>
    /\ p_ext = <<>> /\ p_result = NoParse

ResolverIdle ==
    /\ r_pc = "off" /\ searchOk = TRUE /\ results = <<>>
    /\ detail = [id \in ReleaseIds |-> FetchFailed] /\ verify = TRUE
    /\ candidates = <<>> /\ idx = 0 /\ details = NoDetails /\ ret = Pending
    /\ events = <<>> /\ examined = {}

----------------------------------------------------------------------------
(* ResolverSpec: find_earliest_release, statement by statement *)

ResolverInit ==
    /\ r_pc = "search"
    /\ searchOk \in BOOLEAN
    /\ results \in SeqsUpTo(Rows, MaxResults)
    /\ (~searchOk => results = <<>>)
    /\ detail \in DetailTables
    /\ verify \in BOOLEAN
    /\ candidates = <<>>
    /\ idx = 0
    /\ details = NoDetails
    /\ ret = Pending
    /\ events = <<>>
    /\ examined = {}

Finish(r) == /\ ret' = r
             /\ r_pc' = "done"

\* line 110: search_discogs raises (requests.get, raise_for_status, json)
SearchFails ==
    /\ r_pc = "search"
    /\ UNCHANGED <<pvars, tvars>>
    /\ ~searchOk
    /\ Finish(Raised)
    /\ events' = Append(events, "search")
    /\ UNCHANGED <<searchOk, results, detail, verify, candidates, idx, details, examined>>

\* lines 110-113: the search answers with no result
SearchEmpty ==
    /\ r_pc = "search"
    /\ UNCHANGED <<pvars, tvars>>
    /\ searchOk
    /\ results = <<>>
    /\ Finish(Returned(NoResult, "empty"))
    /\ events' = Append(events, "search")
    /\ UNCHANGED <<searchOk, results, detail, verify, candidates, idx, details, examined>>

\* lines 110-123: the search answers; filter, then sort
SearchFilterSort ==
    /\ r_pc = "search"
    /\ UNCHANGED <<pvars, tvars>>
    /\ searchOk
    /\ results # <<>>
    /\ candidates' = SortByYear(FilterRows(results))
    /\ idx' = 1
    /\ r_pc' = "loop"
    /\ events' = Append(events, "search")
    /\ UNCHANGED <<searchOk, results, detail, verify, details, ret, examined>>

\* line 126: the list is exhausted
LoopExit ==
    /\ r_pc = "loop"
    /\ UNCHANGED <<pvars, tvars>>
    /\ idx > Len(candidates)
    /\ r_pc' = "after"
    /\ UNCHANGED <<searchOk, results, detail, verify, candidates, idx, details, ret,
                   events, examined>>

\* lines 126-129: next candidate, to be verified
LoopVerify ==
    /\ r_pc = "loop"
    /\ UNCHANGED <<pvars, tvars>>
    /\ idx <= Len(candidates)
    /\ verify /\ candidates[idx].id # 0
    /\ examined' = examined \cup {idx}
    /\ r_pc' = "fetch"
    /\ UNCHANGED <<searchOk, results, detail, verify, candidates, idx, details, ret, events>>

\* lines 126-129, 152-165: next candidate, returned as the search gave it
ReturnDirect ==
    /\ r_pc = "loop"
    /\ UNCHANGED <<pvars, tvars>>
    /\ idx <= Len(candidates)
    /\ ~(verify /\ candidates[idx].id # 0)
    /\ examined' = examined \cup {idx}
    /\ Finish(Returned(FromSearch(candidates[idx], QArtist, QTitle), "direct"))
    /\ UNCHANGED <<searchOk, results, detail, verify, candidates, idx, details, events>>

\* line 131: get_release_details answers
FetchOk ==
    /\ r_pc = "fetch"
    /\ UNCHANGED <<pvars, tvars>>
    /\ detail[candidates[idx].id].ok
    /\ details' = detail[candidates[idx].id]
    /\ events' = Append(events, "fetch")
    /\ r_pc' = "sleep"
    /\ UNCHANGED <<searchOk, results, detail, verify, candidates, idx, ret, examined>>

\* lines 131, 150-151: get_release_details raises; except Exception: continue
FetchRaises ==
    /\ r_pc = "fetch"
    /\ UNCHANGED <<pvars, tvars>>
    /\ ~detail[candidates[idx].id].ok
    /\ events' = Append(events, "fetch")
    /\ idx' = idx + 1
    /\ r_pc' = "loop"
    /\ UNCHANGED <<searchOk, results, detail, verify, candidates, details, ret, examined>>

\* line 132: time.sleep(0.5)
Sleep ==
    /\ r_pc = "sleep"
    /\ UNCHANGED <<pvars, tvars>>
    /\ events' = Append(events, "sleep")
    /\ r_pc' = "check"
    /\ UNCHANGED <<searchOk, results, detail, verify, candidates, idx, details, ret, examined>>

\* lines 134-135: the tracklist does not hold the title; continue
Reject ==
    /\ r_pc = "check"
    /\ UNCHANGED <<pvars, tvars>>
    /\ ~track_on_release(details, QTitle)
    /\ idx' = idx + 1
    /\ r_pc' = "loop"
    /\ UNCHANGED <<searchOk, results, detail, verify, candidates, details, ret, events,
                   examined>>

\* lines 134-149: a verified match
ReturnVerified ==
    /\ r_pc = "check"
    /\ UNCHANGED <<pvars, tvars>>
    /\ track_on_release(details, QTitle)
    /\ Finish(Returned(FromDetails(candidates[idx], details, QArtist, QTitle), "verified"))
    /\ UNCHANGED <<searchOk, results, detail, verify, candidates, idx, details, events,
                   examined>>

\* lines 167-183: after the loop
AfterLoop ==
    /\ r_pc = "after"
    /\ UNCHANGED <<pvars, tvars>>
    /\ Finish(FallbackResult(candidates, QArtist, QTitle))
    /\ UNCHANGED <<searchOk, results, detail, verify, candidates, idx, details, events,
                   examined>>

ResolverNext ==
    \/ SearchFails
    \/ SearchEmpty
    \/ SearchFilterSort
    \/ LoopExit
    \/ LoopVerify
    \/ ReturnDirect
    \/ FetchOk
    \/ FetchRaises
    \/ Sleep
    \/ Reject
    \/ ReturnVerified
    \/ AfterLoop

----------------------------------------------------------------------------
(* tag_audio.py: files, messages, tag writers *)

SUPPORTED_EXTENSIONS ==
    { <<".", "m", "p", "3">>, <<".", "f", "l", "a", "c">>, <<".", "o", "g", "g">>,
      <<".", "m", "4", "a">>, <<".", "m", "p", "4">>, <<".", "w", "m", "a">>,
      <<".", "w", "a", "v">> }

\* extensions whose writer stores no label (tag_m4a)
NoLabelExtensions == { <<".", "m", "4", "a">>, <<".", "m", "p", "4">> }

\* The directory tree.  A path is its sequence of parts below the target.
FileIds == {"f1", "f2", "f3", "f4"}
PathOf(f) ==
    CASE f = "f1" -> << <<"a", " ", "-", " ", "L", "o", ".", "m", "p", "3">> >>
      [] f = "f2" -> << <<"a", "b", ".", "f", "l", "a", "c">> >>
      [] f = "f3" -> << <<"a", " ", "-", " ", "L", "o", ".", "t", "x", "t">> >>
      [] f = "f4" -> << <<"s">>, <<"X", " ", "-", " ", "l", "o", ".", "M", "4", "a">> >>

NameOf(f) == PathOf(f)[Len(PathOf(f))]
TopLevel(f) == Len(PathOf(f)) = 1

\* code points of the characters of the file names
Ord(c) ==
    CASE c = " " -> 32 [] c = "-" -> 45 [] c = "." -> 46 [] c = "3" -> 51
      [] c = "4" -> 52 [] c = "L" -> 76 [] c = "M" -> 77 [] c = "X" -> 88 [] c = "a" -> 97
      [] c = "b" -> 98 [] c = "c" -> 99 [] c = "f" -> 102 [] c = "l" -> 108
      [] c = "m" -> 109 [] c = "o" -> 111 [] c = "p" -> 112 [] c = "s" -> 115 [] c = "t" -> 116
      [] c = "x" -> 120

\* str < str, and list-of-parts < list-of-parts (PurePath.__lt__)
StrLess(x, y) ==
    \E i \in 1..(Len(x) + 1) :
        /\ \A j \in 1..(i - 1) : j <= Len(y) /\ x[j] = y[j]
        /\ i <= Len(y)
        /\ (i = Len(x) + 1 \/ Ord(x[i]) < Ord(y[i]))

PartsLess(P, Q) ==
    \E i \in 1..(Len(P) + 1) :
        /\ \A j \in 1..(i - 1) : j <= Len(Q) /\ P[j] = Q[j]
        /\ i <= Len(Q)
        /\ (i = Len(P) + 1 \/ StrLess(P[i], Q[i]))

\* sorted(files)
RECURSIVE SortedFiles(_)
SortedFiles(S) ==
    IF S = {} THEN <<>>
    ELSE LET least == CHOOSE f \in S : \A g \in S \ {f} : PartsLess(PathOf(f), PathOf(g))
         IN  <<least>> \o SortedFiles(S \ {least})

\* lines 233-237: the files of a run
FilesOf(target, recursive) ==
    IF target \in FileIds THEN <<target>>
    ELSE SortedFiles({f \in FileIds :
                        /\ (recursive \/ TopLevel(f))
                        /\ lower(suffix(NameOf(f))) \in SUPPORTED_EXTENSIONS})

\* Messages are sequences of text pieces; `x in msg` looks for a piece.
MsgContains(msg, piece) == \E i \in 1..Len(msg) : msg[i] = piece

MsgUnsupported == <<"Unsupported", " format: ", "{ext}">>
MsgNoMatch == <<"Filename ", "doesn't match", " pattern '", "{pattern}", "'">>
MsgUnavailable == <<"Discogs lookup not available (check discogs_lookup.py)">>
MsgWouldTag == <<"Would tag: ", "{artist}", "{title}", "{discogs_info}">>
MsgTagged == <<"Tagged: ", "{artist}", "{title}", "{discogs_info}">>
MsgError(e) == <<"Error: ">> \o e

\* what the tag library does when asked to save: it saves, or raises e
WriteOk == [ok |-> TRUE, e |-> <<>>]
WriteRaises(e) == [ok |-> FALSE, e |-> e]
WriteOutcomes ==
    {WriteOk,
     WriteRaises(<<"[Errno 13] Permission denied">>),
     WriteRaises(<<"Unsupported", " ID3 version">>),
     WriteRaises(<<"header ", "doesn't match", " file size">>)}

NoTags == [artist |-> <<>>, title |-> <<>>, year |-> 0, genre |-> <<>>, label |-> None]

\* ", ".join(list)
RECURSIVE Join(_)
Join(list) ==
    IF Len(list) <= 1 THEN list
    ELSE <<list[1], ", ">> \o Join(Tail(list))

Take(list, n) == SubSeq(list, 1, IF Len(list) < n THEN Len(list) ELSE n)

GenreLimit == 3

\* lines 206-207: genres then styles, the first three, joined
GenreTag(result) == Join(Take(result.genres \o result.styles, GenreLimit))

\* tag_mp3 .. tag_wav: artist and title always; year, genre, label when
\* given; no label in MP4.  The date tag holds str(year).
WriteTags(ext, old, artist, title, year, genre, label) ==
    [artist |-> artist,
     title  |-> title,
     year   |-> IF year # 0 THEN year ELSE old.year,
     genre  |-> IF genre # <<>> THEN genre ELSE old.genre,
     label  |-> IF label # None /\ ext \notin NoLabelExtensions THEN label ELSE old.label]

\* what the network does to one lookup
Lookup(ok, rs, det) == [ok |-> ok, results |-> rs, detail |-> det]
LookupCases ==
    LET rs == <<SearchRow(1, YearInt(1975)), SearchRow(2, YearInt(1973))>>
    IN  {Lookup(FALSE, <<>>, [id \in ReleaseIds |-> FetchFailed]),
         Lookup(TRUE, <<>>, [id \in ReleaseIds |-> FetchFailed]),
         Lookup(TRUE, rs, [id \in ReleaseIds |-> IF id = 1 THEN DetailMatch(id)
                                                 ELSE DetailNoMatch(id)]),
         Lookup(TRUE, rs, [id \in ReleaseIds |-> FetchFailed])}

----------------------------------------------------------------------------
(* tag_audio.py: tag_file and process_path *)

\* the value tag_file returns, the tags the file holds afterwards, and what
\* happened on the way (lookup raised, a tag writer was called, it raised)
Outcome(success, msg, tags, lookupRaised, writerCalled, writerRaised) ==
    [success |-> success, msg |-> msg, tags |-> tags, lookupRaised |-> lookupRaised,
     writerCalled |-> writerCalled, writerRaised |-> writerRaised]

\* lines 193-213: year, genre, label after the optional lookup
Enrichment(use_discogs, lk, artist, title) ==
    IF ~use_discogs
    THEN [raised |-> FALSE, year |-> 0, genre |-> <<>>, label |-> None]
    ELSE LET r == find_earliest_release(lk.ok, lk.results, lk.detail, TRUE, artist, title)
         IN  IF r.kind = "raised"
             THEN [raised |-> TRUE, year |-> 0, genre |-> <<>>, label |-> None]
             ELSE IF r.value.found
             THEN [raised |-> FALSE, year |-> r.value.year, genre |-> GenreTag(r.value),
                   label |-> r.value.label]
             ELSE [raised |-> FALSE, year |-> 0, genre |-> <<>>, label |-> None]

\* lines 218-222: call the writer of the extension
WriteStep(ext, old, parsed, enr, wr) ==
    IF wr.ok
    THEN Outcome(TRUE, MsgTagged,
                 WriteTags(ext, old, parsed.artist, parsed.title, enr.year, enr.genre,
                           enr.label),
                 enr.raised, TRUE, FALSE)
    ELSE Outcome(FALSE, MsgError(wr.e), old, enr.raised, TRUE, TRUE)

\* mutant of AfterParse: dry_run is not consulted
AfterParse_no_dry_run(ext, parsed, enr, dry_run, use_discogs, available, wr, old) ==
    IF ext \notin SUPPORTED_EXTENSIONS
    THEN Outcome(FALSE, MsgUnsupported, old, FALSE, FALSE, FALSE)
    ELSE IF ~parsed.ok
    THEN Outcome(FALSE, MsgNoMatch, old, FALSE, FALSE, FALSE)
    ELSE IF use_discogs /\ ~available
    THEN Outcome(FALSE, MsgUnavailable, old, FALSE, FALSE, FALSE)
    ELSE WriteStep(ext, old, parsed, enr, wr)

\* mutant of AfterParse: a lookup that raises fails the file
AfterParse_lookup_fatal(ext, parsed, enr, dry_run, use_discogs, available, wr, old) ==
    IF ext \notin SUPPORTED_EXTENSIONS
    THEN Outcome(FALSE, MsgUnsupported, old, FALSE, FALSE, FALSE)
    ELSE IF ~parsed.ok
    THEN Outcome(FALSE, MsgNoMatch, old, FALSE, FALSE, FALSE)
    ELSE IF use_discogs /\ ~available
    THEN Outcome(FALSE, MsgUnavailable, old, FALSE, FALSE, FALSE)
    ELSE IF enr.raised
    THEN Outcome(FALSE, MsgError(<<"Discogs error">>), old, TRUE, FALSE, FALSE)
    ELSE IF dry_run
    THEN Outcome(TRUE, MsgWouldTag, old, enr.raised, FALSE, FALSE)
    ELSE WriteStep(ext, old, parsed, enr, wr)

\* lines 183-222, given ext (line 183), parsed (line 188) and the outcome
\* enr of the lookup (lines 197-213) when the code gets that far
AfterParse(ext, parsed, enr, dry_run, use_discogs, available, wr, old) ==
    IF ext \notin SUPPORTED_EXTENSIONS
    THEN Outcome(FALSE, MsgUnsupported, old, FALSE, FALSE, FALSE)
    ELSE IF ~parsed.ok
    THEN Outcome(FALSE, MsgNoMatch, old, FALSE, FALSE, FALSE)
    ELSE IF use_discogs /\ ~available
    THEN Outcome(FALSE, MsgUnavailable, old, FALSE, FALSE, FALSE)
    ELSE IF dry_run
    THEN Outcome(TRUE, MsgWouldTag, old, enr.raised, FALSE, FALSE)
    ELSE WriteStep(ext, old, parsed, enr, wr)

Enriched(parsed, use_discogs, available, lk) ==
    Enrichment(parsed.ok /\ use_discogs /\ available, lk, parsed.artist, parsed.title)

TagParsed(ext, parsed, dry_run, use_discogs, available, lk, wr, old) ==
    AfterParse(ext, parsed, Enriched(parsed, use_discogs, available, lk),
               dry_run, use_discogs, available, wr, old)

\* lines 177-222
tag_file(f, pattern, dry_run, use_discogs, available, lk, wr, old) ==
    TagParsed(lower(suffix(NameOf(f))), parse_filename(NameOf(f), pattern),
              dry_run, use_discogs, available, lk, wr, old)

\* lines 244-253: the counter a (success, message) pair goes to
Counter(success, msg) ==
    IF success THEN "success"
    ELSE IF MsgContains(msg, "Unsupported") \/ MsgContains(msg, "doesn't match")
    THEN "skipped"
    ELSE "failed"

\* main, lines 289-295 and 309: the exit status.  The two early exits leave
\* with 1 before process_path is called; otherwise the counters decide.
ExitCode ==
    IF t_pc = "aborted" THEN 1
    ELSE IF stats.failed = 0 THEN 0 ELSE 1

DefaultPattern == <<PhArtist, " ", "-", " ", PhTitle>>
TitleFirstPattern == <<PhTitle, " ", "-", " ", PhArtist>>

\* The arguments of a run.  A single-file target is the file with the
\* unsupported extension (a directory run never lists it); "missing" is a
\* path that does not exist; recursive only matters for a directory;
\* available (DISCOGS_AVAILABLE) only with --discogs.
Configs ==
    {c \in [target : {"dir", "f3", "missing"}, pattern : {DefaultPattern, TitleFirstPattern},
            dry_run : BOOLEAN, recursive : BOOLEAN, use_discogs : BOOLEAN,
            available : BOOLEAN] :
        /\ (c.target # "dir" => ~c.recursive)
        /\ (~c.use_discogs => c.available)}

NoConfig == [target |-> "dir", pattern |-> DefaultPattern, dry_run |-> FALSE,
             recursive |-> FALSE, use_discogs |-> FALSE, available |-> TRUE]

ZeroStats == [success |-> 0, failed |-> 0, skipped |-> 0]
NoLast == [file |-> "none", success |-> FALSE, counted |-> "none", lookupRaised |-> FALSE,
           writerCalled |-> FALSE, writerRaised |-> FALSE]

\* main, line 289: args.path.exists()
PathExists(target) == target # "missing"

\* main, line 293: args.discogs and not DISCOGS_AVAILABLE
DiscogsMissing(c) == c.use_discogs /\ ~c.available

TaggerIdle ==
    /\ t_pc = "off" /\ disk = [f \in FileIds |-> NoTags] /\ cfg = NoConfig
    /\ queue = <<>> /\ pos = 0 /\ stats = ZeroStats /\ last = NoLast
    /\ runs = 0

TaggerInit ==
    /\ t_pc = "idle"
    /\ disk = [f \in FileIds |-> NoTags]
    /\ cfg = NoConfig
    /\ queue = <<>>
    /\ pos = 0
    /\ stats = ZeroStats
    /\ last = NoLast
    /\ runs = 0

\* main, lines 289-291: the path does not exist; exit 1, nothing processed
PathNotFound ==
    /\ t_pc \in {"idle", "done", "aborted"}
    /\ runs < MaxRuns
    /\ \E c \in Configs :
        /\ ~PathExists(c.target)
        /\ cfg' = c
    /\ queue' = <<>>
    /\ pos' = 0
    /\ stats' = ZeroStats
    /\ last' = NoLast
    /\ runs' = runs + 1
    /\ t_pc' = "aborted"
    /\ UNCHANGED disk
    /\ UNCHANGED <<pvars, rvars>>

\* main, lines 293-295: --discogs without discogs_lookup; exit 1, nothing
\* processed
DiscogsUnavailable ==
    /\ t_pc \in {"idle", "done", "aborted"}
    /\ runs < MaxRuns
    /\ \E c \in Configs :
        /\ PathExists(c.target)
        /\ DiscogsMissing(c)
        /\ cfg' = c
    /\ queue' = <<>>
    /\ pos' = 0
    /\ stats' = ZeroStats
    /\ last' = NoLast
    /\ runs' = runs + 1
    /\ t_pc' = "aborted"
    /\ UNCHANGED disk
    /\ UNCHANGED <<pvars, rvars>>

\* main, lines 289-306, and lines 231-237: both checks of main pass and a
\* run of process_path begins
StartRun ==
    /\ t_pc \in {"idle", "done", "aborted"}
    /\ runs < MaxRuns
    /\ \E c \in Configs :
        /\ PathExists(c.target)
        /\ ~DiscogsMissing(c)
        /\ cfg' = c
        /\ queue' = FilesOf(c.target, c.recursive)
    /\ pos' = 1
    /\ stats' = ZeroStats
    /\ last' = NoLast
    /\ runs' = runs + 1
    /\ t_pc' = "loop"
    /\ UNCHANGED disk
    /\ UNCHANGED <<pvars, rvars>>

\* lines 239-257: one iteration of the loop over sorted(files).  The
\* time.sleep(1) that ends the iteration changes nothing.
TagStep ==
    /\ t_pc = "loop"
    /\ pos <= Len(queue)
    /\ \E lk \in LookupCases, wr \in WriteOutcomes :
        \E out \in {tag_file(queue[pos], cfg.pattern, cfg.dry_run, cfg.use_discogs,
                             cfg.available, lk, wr, disk[queue[pos]])} :
            /\ disk' = [disk EXCEPT ![queue[pos]] = out.tags]
            /\ stats' = [stats EXCEPT ![Counter(out.success, out.msg)] = @ + 1]
            /\ last' = [file |-> queue[pos], success |-> out.success,
                        counted |-> Counter(out.success, out.msg),
                        lookupRaised |-> out.lookupRaised,
                        writerCalled |-> out.writerCalled,
                        writerRaised |-> out.writerRaised]
    /\ pos' = pos + 1
    /\ UNCHANGED <<t_pc, cfg, queue, runs>>
    /\ UNCHANGED <<pvars, rvars>>

\* line 259, main lines 307-309: the run returns its counters
FinishRun ==
    /\ t_pc = "loop"
    /\ pos > Len(queue)
    /\ t_pc' = "done"
    /\ UNCHANGED <<disk, cfg, queue, pos, stats, last, runs>>
    /\ UNCHANGED <<pvars, rvars>>

TaggerNext == PathNotFound \/ DiscogsUnavailable \/ StartRun \/ TagStep \/ FinishRun

TaggerStart == TaggerInit /\ ParserIdle /\ ResolverIdle

TaggerSpec == TaggerStart /\ [][TaggerNext]_vars

----------------------------------------------------------------------------
(* ParserSpec: parse_filename on generated names *)

Alphabet == {"a", "X", " ", "-", "."}
Strings == SeqsUpTo(Alphabet, MaxLen)

Patterns ==
    { DefaultPattern,
      TitleFirstPattern,
      <<PhArtist, "-", "-", PhTitle>>,
      <<PhArtist, "x", PhTitle>> }

Extensions == { <<>>, <<".", "m", "p", "3">> }

\* the pattern with its placeholders filled in, the extension appended
FormatName(pattern, artist, title, ext) ==
    LET sep == SeparatorLit(pattern)
    IN  (IF pattern[FirstPh(pattern)] = PhArtist
         THEN PrefixLit(pattern) \o artist \o sep \o title \o SuffixLit(pattern)
         ELSE PrefixLit(pattern) \o title \o sep \o artist \o SuffixLit(pattern)) \o ext

ParserInit ==
    /\ p_pc = "init"
    /\ p_artist \in Strings
    /\ p_title \in Strings
    /\ p_pattern \in Patterns
    /\ p_ext \in Extensions
    /\ p_result = NoParse

Parse ==
    /\ p_pc = "init"
    /\ p_result' = parse_filename(FormatName(p_pattern, p_artist, p_title, p_ext), p_pattern)
    /\ p_pc' = "parsed"
    /\ UNCHANGED <<p_artist, p_title, p_pattern, p_ext>>
    /\ UNCHANGED <<rvars, tvars>>

ParserNext == Parse

ParserStart == ParserInit /\ ResolverIdle /\ TaggerIdle

ParserSpec == ParserStart /\ [][ParserNext]_vars

ResolverStart == ResolverInit /\ ParserIdle /\ TaggerIdle

ResolverSpec == ResolverStart /\ [][ResolverNext]_vars

----------------------------------------------------------------------------
(* Properties of find_earliest_release (ResolverSpec) *)

\* indices of the search rows whose year is an integer above 1900
Usable == {i \in 1..Len(results) : results[i].year.k = "int" /\ results[i].year.v > 1900}

\* row h comes before row i: smaller year, or same year and earlier in the response
Before(h, i) ==
    \/ results[h].year.v < results[i].year.v
    \/ results[h].year.v = results[i].year.v /\ h < i

Rank(i) == Cardinality({h \in Usable : Before(h, i)}) + 1

\* candidate j is fetched without error and its tracklist holds the title
WouldVerify(j) ==
    /\ candidates[j].id # 0
    /\ detail[candidates[j].id].ok
    /\ track_on_release(detail[candidates[j].id], QTitle)

\* the detail fetch of candidate j raises
FetchFailsAt(j) == candidates[j].id # 0 /\ ~detail[candidates[j].id].ok

\* candidate j is fetched and turned down: no match, or the fetch raises
RejectedAt(j) == candidates[j].id # 0 /\ ~WouldVerify(j)

ResolverDone == r_pc = "done"

\* the statement-by-statement call and find_earliest_release as one value agree
CallAgrees ==
    ResolverDone => ret = find_earliest_release(searchOk, results, detail, verify, QArtist, QTitle)

\* C1: with verify_tracklist, a verified result is the first candidate of
\* the sorted list that verifies, every candidate before it having been
\* fetched and turned down; and no candidate is returned unverified while
\* a candidate of the list would verify.
C1Claim ==
    (ResolverDone /\ verify /\ ret.kind = "returned" /\ ret.value.found) =>
        /\ ret.via = "verified" =>
              /\ WouldVerify(idx)
              /\ ret.value.release_id = candidates[idx].id
              /\ \A j \in 1..(idx - 1) : j \in examined /\ RejectedAt(j)
              /\ \A j \in 1..Len(candidates) :
                    WouldVerify(j) => ret.value.year <= candidates[j].year.v
        /\ ret.via # "verified" =>
              \A j \in 1..Len(candidates) : ~WouldVerify(j)

\* C2: with verify_tracklist, when every candidate is turned down by
\* verification, the result is built from the first candidate of the
\* sorted list and the search payload.
C2Theorem ==
    (/\ ResolverDone /\ verify /\ candidates # <<>>
     /\ \A j \in 1..Len(candidates) : RejectedAt(j)) =>
        /\ ret.kind = "returned"
        /\ ret.value.found
        /\ ret.value.release_id = candidates[1].id
        /\ ret.value.release_url = <<"https://www.discogs.com/release/", candidates[1].id>>
        /\ ret.value.year = candidates[1].year.v
        /\ ret.value.genres = candidates[1].genre
        /\ ret.value.styles = candidates[1].style
        /\ ret.value.label = (IF candidates[1].label = <<>> THEN None ELSE candidates[1].label[1])
        /\ ret.value.format = (IF candidates[1].format = <<>> THEN None ELSE candidates[1].format[1])
        /\ ret.value.country = candidates[1].country
        /\ ret.value.artist = QArtist /\ ret.value.title = QTitle

C2Witness ==
    /\ ResolverDone /\ verify /\ Len(candidates) >= 2
    /\ \A j \in 1..Len(candidates) : RejectedAt(j)
    /\ \E j \in 1..Len(candidates) : FetchFailsAt(j)
    /\ \E j \in 1..Len(candidates) : ~FetchFailsAt(j)
    /\ candidates[1].id # candidates[Len(candidates)].id
    /\ ret.via = "fallback"

\* C3: the list the loop iterates is exactly the search rows whose year is
\* an integer above 1900, in non-decreasing year order, rows of equal year
\* in the order of the response.
C3Theorem ==
    (r_pc # "search" /\ searchOk) =>
        /\ Len(candidates) = Cardinality(Usable)
        /\ \A i \in Usable : candidates[Rank(i)] = results[i]
        /\ \A j \in 1..(Len(candidates) - 1) : candidates[j].year.v <= candidates[j + 1].year.v
        /\ examined \subseteq 1..Len(candidates)

C3Witness ==
    /\ ResolverDone /\ searchOk
    /\ Len(results) > Len(candidates)
    /\ Len(candidates) >= 2
    /\ candidates[1].year = candidates[2].year
    /\ candidates[1].id # candidates[2].id
    /\ \E i \in 1..Len(results) : results[i].year = YearInt(1900)

\* C4: when the search succeeds, the call reports not-found exactly when no
\* search row has a usable year; otherwise it returns one result, whatever
\* verify_tracklist is and whatever the detail fetches do.
C4Theorem ==
    (ResolverDone /\ searchOk) =>
        /\ ret.kind = "returned"
        /\ ~ret.value.found <=> (Usable = {})

C4Witness ==
    /\ ResolverDone /\ searchOk /\ verify
    /\ Usable # {}
    /\ \A j \in 1..Len(candidates) : FetchFailsAt(j)
    /\ ret.value.found

\* C7: a detail fetch that raises does not end the call: the candidates
\* after it are examined in turn, up to the one the call returns, and the
\* call ends with a result that is either verified or the fallback.
C7Claim ==
    (ResolverDone /\ searchOk /\ verify) =>
        \A j \in examined :
            FetchFailsAt(j) =>
                /\ ret.kind = "returned" /\ ret.value.found
                /\ ret.via \in {"verified", "fallback"}
                /\ ret.via = "verified" =>
                      /\ WouldVerify(idx)
                      /\ ret.value.release_id = candidates[idx].id
                      /\ \A k \in (j + 1)..idx : k \in examined
                /\ ret.via = "fallback" =>
                      /\ ret.value.release_id = candidates[1].id
                      /\ \A k \in (j + 1)..Len(candidates) : k \in examined

\* C10: every detail fetch, whether it answers or raises, is followed by
\* the 0.5 delay before the next detail fetch.
C10Claim ==
    \A i \in 1..(Len(events) - 1) :
        events[i] = "fetch" => events[i + 1] # "fetch"

----------------------------------------------------------------------------
(* Properties of tag_file and process_path (TaggerSpec) *)

\* C5, as claimed: a file whose lookup raises is a failed file.  (Stated
\* for the files whose tag writer, if called, does not raise.)
C5Claim ==
    (last.lookupRaised /\ ~last.writerRaised) =>
        (~last.success /\ last.counted = "failed" /\ ExitCode = 1)

\* C5, amended: a lookup that raises is absorbed.  The file goes on to the
\* dry-run report or the tag writer and counts as a success unless the
\* writer raises; the loop goes on to the remaining files.
C5Theorem ==
    /\ last.lookupRaised =>
          /\ last.writerCalled = ~cfg.dry_run
          /\ (cfg.dry_run \/ ~last.writerRaised) =>
                (last.success /\ last.counted = "success" /\ stats.success >= 1)
    /\ t_pc \in {"loop", "done"} =>
          /\ stats.success + stats.failed + stats.skipped = pos - 1
          /\ pos <= Len(queue) + 1
    /\ t_pc = "done" => pos = Len(queue) + 1

C5Witness ==
    /\ t_pc = "done"
    /\ Len(queue) >= 2
    /\ stats.success = Len(queue) - 1
    /\ ~cfg.dry_run /\ cfg.use_discogs
    /\ last.lookupRaised /\ last.writerCalled /\ last.success
    /\ ExitCode = 0

\* C6: a tag writer that raises makes the file a failed one, whatever the
\* message; only an unsupported extension or a pattern mismatch is skipped.
C6Claim ==
    /\ last.writerRaised => (last.counted = "failed" /\ ExitCode = 1)
    /\ last.counted = "skipped" => ~last.writerCalled

\* C8: in a dry run no step calls a tag writer or changes a file.
C8Theorem ==
    [][(t_pc = "loop" /\ cfg.dry_run) => (disk' = disk /\ ~last'.writerCalled)]_vars

C8Witness ==
    /\ t_pc = "done" /\ runs >= 2
    /\ cfg.dry_run /\ cfg.use_discogs /\ cfg.available
    /\ stats.success >= 2
    /\ last.lookupRaised
    /\ disk["f1"] # NoTags

----------------------------------------------------------------------------
(* Properties of parse_filename (ParserSpec) *)

Sep == SeparatorLit(p_pattern)
ArtistFirst == p_pattern[FirstPh(p_pattern)] = PhArtist

\* artist + separator + title, in the pattern's order
Formed == IF ArtistFirst THEN p_artist \o Sep \o p_title ELSE p_title \o Sep \o p_artist

JoinAt == (IF ArtistFirst THEN Len(p_artist) ELSE Len(p_title)) + 1

RoundTrip ==
    /\ p_result.ok
    /\ p_result.artist = strip(p_artist)
    /\ p_result.title = strip(p_title)

\* C9, as claimed: when neither artist nor title contains the separator,
\* parsing the formed name gives back artist and title, trimmed.  (Stated
\* for non-empty artist and title and a file name whose stem is the formed
\* text.)
C9Claim ==
    (/\ p_pc = "parsed"
     /\ Sep # <<>>
     /\ p_artist # <<>> /\ p_title # <<>>
     /\ stem(Formed \o p_ext) = Formed
     /\ ~Contains(p_artist, Sep) /\ ~Contains(p_title, Sep)) => RoundTrip

\* C9, amended: the round trip holds when artist and title are not empty,
\* the separator, compared without case, occurs in the formed text only
\* where it was put, and the stem of the file name is the formed text.
C9Theorem ==
    (/\ p_pc = "parsed"
     /\ Sep # <<>>
     /\ p_artist # <<>> /\ p_title # <<>>
     /\ {i \in 1..Len(Formed) : OccursAt(lower(Formed), lower(Sep), i)} = {JoinAt}
     /\ stem(Formed \o p_ext) = Formed) => RoundTrip

C9Witness ==
    /\ p_pc = "parsed"
    /\ p_artist # <<>> /\ p_title # <<>>
    /\ {i \in 1..Len(Formed) : OccursAt(lower(Formed), lower(Sep), i)} = {JoinAt}
    /\ stem(Formed \o p_ext) = Formed
    /\ p_ext # <<>>
    /\ strip(p_artist) # p_artist
    /\ \E i \in 1..Len(p_title) : p_title[i] = "."
    /\ ~ArtistFirst
    /\ RoundTrip

====
